---- MODULE Spec2Model ----
(***************************************************************************)
(* The Streamlit chat front-end of infrastructure/docker/streamlit-chat    *)
(* (app.py): the session state (message log, uploaded-document list), the  *)
(* file-uploader widget, the two backend calls and the script's top-to-    *)
(* bottom re-execution on every user action.                               *)
(*                                                                         *)
(* A text is a sequence of tokens; the tokens "\n", "-", "**" and the      *)
(* bullet are single characters, every other token is an opaque run of     *)
(* characters holding none of them.  A JSON value is a record [t, v] with  *)
(* t its type and v its content.  Timestamps (datetime.now()) and a        *)
(* file's type and size are left out: no branch of the script reads them.  *)
(***************************************************************************)
EXTENDS Integers, Sequences, FiniteSets, TLC

VARIABLES
  messages,            \* st.session_state.messages
  uploaded_documents,  \* st.session_state.uploaded_documents
  uploaded_files,      \* the files held by the st.file_uploader widget
  pc,                  \* position of the script run
  idx,                 \* position of the upload loop in uploaded_files
  pending,             \* the widget interaction this run delivers
  crashed,             \* the exception that ended the last run, or "no"
  trigger,             \* history: the user action being handled
  io,                  \* history: the backend call of the last step
  atEvent,             \* history: session state when the user acted
  sentCount,           \* history: requests sent since the user acted
  completed,           \* history: the selected files whose upload has returned
  pure,                \* history: log built by successful submissions only
  turns,               \* history: those submissions, in order
  nEvents              \* number of user actions so far

vars == <<messages, uploaded_documents, uploaded_files, pc, idx, pending,
          crashed, trigger, io, atEvent, sentCount, completed, pure, turns,
          nEvents>>

\* The number of user actions a behaviour may hold.
MaxEvents == 3

-----------------------------------------------------------------------------
(* Values.                                                                 *)

Str(text)  == [t |-> "str",  v |-> text]
List(seq)  == [t |-> "list", v |-> seq]
Obj(flds)  == [t |-> "obj",  v |-> flds]
Null       == [t |-> "null", v |-> <<>>]
\* A 200 body that is not JSON: response.json() raises on it.
NotJson    == [t |-> "bad",  v |-> <<>>]
EmptyObj   == Obj(<<>>)

\* Python truthiness of a parsed JSON value.
Truthy(j) == j.t # "null" /\ DOMAIN j.v # {}

\* dict.get(key, default)
Get(obj, key, default) == IF key \in DOMAIN obj.v THEN obj.v[key] ELSE default

\* The files the user can pick, by name.
Files == {"report.pdf", "notes.txt"}

UploadedFile(name) == [name |-> name, file_id |-> name]

\* The ids the backend may assign to a file; no id serves two files.
IdsOf(name) == IF name = "report.pdf" THEN {"doc_123", "doc_124"} ELSE {"doc_200"}

Prompts == {<<"Summarize this document">>, <<"Compare", "-", "both">>}

sample_questions == {<<"What are the key points?">>}

ResponseText == <<"Points:", "\n", "-", "one", "**", "\n", "-", "two">>

SourceList == <<"report.pdf p.1">>

FallbackString == <<"Sorry, I couldn't generate a response.">>

error_message ==
  <<"Sorry, I'm having trouble connecting to the AI service. Please try again.">>

\* What the backend may answer: a transport fault, or a status with a body.
Fault        == [fault |-> TRUE,  status |-> 0,   body |-> NotJson]
Http(st, b)  == [fault |-> FALSE, status |-> st,  body |-> b]
NoReply      == [fault |-> FALSE, status |-> 0,   body |-> NotJson]

QueryReplies ==
  { Fault,
    Http(500, NotJson),
    Http(200, NotJson),
    Http(200, EmptyObj),
    Http(200, List(<<"x">>)),
    Http(200, Obj([response |-> Str(ResponseText), sources |-> List(SourceList)])),
    Http(200, Obj([response |-> Str(<<>>), sources |-> List(<<>>)])),
    Http(200, Obj([response |-> Null, sources |-> List(<<>>)])),
    Http(200, Obj([sources |-> List(SourceList)])) }

UploadReplies(name) ==
  { Fault,
    Http(500, NotJson),
    Http(200, NotJson),
    Http(200, EmptyObj),
    Http(200, Obj([status |-> Str(<<"ok">>)])) }
  \cup { Http(200, Obj([document_id |-> Str(<<d>>)])) : d \in IdsOf(name) }

\* st.error / st.success
Error(text)   == [kind |-> "error",   text |-> text]
Success(text) == [kind |-> "success", text |-> text]

NoRequest == [endpoint |-> "none", file |-> "", query |-> <<>>, document_ids |-> <<>>]
UploadRequest(name) ==
  [endpoint |-> "/documents/upload", file |-> name, query |-> <<>>, document_ids |-> <<>>]
QueryRequest(question, ids) ==
  [endpoint |-> "/ai/query", file |-> "", query |-> question, document_ids |-> ids]

-----------------------------------------------------------------------------
(* The API client.                                                         *)

\* The outcome of a call: the exception it raised ("" for none), the value
\* it returned and the notices it showed.
Returned(value, shown) == [exc |-> "",   ret |-> value,    shown |-> shown]
Raised(exc, shown)     == [exc |-> exc,  ret |-> EmptyObj, shown |-> shown]

make_api_request(reply) ==
  IF reply.fault THEN Raised("RequestException", <<>>)
  ELSE IF reply.status = 200
       THEN IF reply.body.t = "bad" THEN Raised("JSONDecodeError", <<>>)
            ELSE Returned(reply.body, <<>>)
       ELSE Returned(EmptyObj, <<Error("API Error")>>)

upload_document(file, reply) ==
  LET r == make_api_request(reply) IN
  IF r.exc # "" THEN Returned(Str(<<>>), <<Error("Error uploading document")>>)
  ELSE IF Truthy(r.ret)
       THEN IF r.ret.t # "obj"
            THEN \* result.get raises AttributeError after st.success
                 Returned(Str(<<>>), r.shown \o <<Success(file.name),
                                                  Error("Error uploading document")>>)
            ELSE Returned(Get(r.ret, "document_id", Str(<<>>)),
                          r.shown \o <<Success(file.name)>>)
       ELSE Returned(Str(<<>>), r.shown \o <<Error("Failed to upload")>>)

\* document_ids or []
OrEmpty(document_ids) == IF document_ids = <<>> THEN <<>> ELSE document_ids

QueryData(question, document_ids) == QueryRequest(question, OrEmpty(document_ids))

query_ai(question, document_ids, reply) ==
  LET r == make_api_request(reply) IN
  IF r.exc # "" THEN Returned(EmptyObj, <<Error("Error querying AI")>>)
  ELSE r

\* U+2022, the bullet of line 144.
Bullet == "(bullet)"

RECURSIVE ReplaceDashes(_)
\* str.replace("\n-", "\n" + bullet)
ReplaceDashes(s) ==
  IF Len(s) < 2 THEN s
  ELSE IF s[1] = "\n" /\ s[2] = "-"
       THEN <<"\n", Bullet>> \o ReplaceDashes(SubSeq(s, 3, Len(s)))
       ELSE <<s[1]>> \o ReplaceDashes(Tail(s))

RECURSIVE ReplaceBold(_)
\* str.replace("**", "**")
ReplaceBold(s) ==
  IF s = <<>> THEN s
  ELSE IF s[1] = "**" THEN <<"**">> \o ReplaceBold(Tail(s))
       ELSE <<s[1]>> \o ReplaceBold(Tail(s))

format_response(response) == ReplaceDashes(ReplaceBold(response))

-----------------------------------------------------------------------------
(* The view: session state and the widgets' interactions.                  *)

UserMessage(prompt) == [role |-> "user", content |-> prompt]

AssistantMessage(formatted_response, sources) ==
  [role |-> "assistant", content |-> formatted_response, sources |-> sources]

\* The error branch with the success branch's fields.
ErrorMessage_WithSources ==
  [role |-> "assistant", content |-> error_message, sources |-> <<>>]

ErrorMessage == [role |-> "assistant", content |-> error_message]

Descriptor(file, document_id) == [name |-> file.name, id |-> document_id]

\* file in st.session_state.uploaded_documents: list membership by ==, an
\* UploadedFile against the descriptor dicts.
FileInDocuments(file, docs) == \E i \in 1..Len(docs) : docs[i] = file

\* The body of the upload loop for one file whose upload returned document_id.
UploadLoopBody(docs, file, document_id) ==
  IF Truthy(document_id) THEN Append(docs, Descriptor(file, document_id.v)) ELSE docs

\* Only the first document's id is sent.
DocumentIds_FirstOnly(docs) == [i \in 1..(IF Len(docs) > 1 THEN 1 ELSE Len(docs)) |-> docs[i].id]

\* [doc["id"] for doc in st.session_state.uploaded_documents]
DocumentIds(docs) == [i \in 1..Len(docs) |-> docs[i].id]

RemoveAt(seq, p) == SubSeq(seq, 1, p - 1) \o SubSeq(seq, p + 1, Len(seq))

\* list.remove(doc): the first element equal to doc goes.
ListRemove(docs, doc) ==
  LET p == CHOOSE i \in 1..Len(docs) :
             docs[i] = doc /\ \A j \in 1..(i - 1) : docs[j] # doc
  IN  RemoveAt(docs, p)

\* The position of the first Remove button whose key is taken by an earlier
\* one (st.button raises there), 0 when the keys differ.
FirstDuplicateKey(docs) ==
  LET dup == {k \in 1..Len(docs) : \E j \in 1..(k - 1) : docs[j].id = docs[k].id}
  IN  IF dup = {} THEN 0 ELSE CHOOSE k \in dup : \A m \in dup : k <= m

\* The position of the button with the given key, 0 when there is none.
ButtonPosition(docs, key) ==
  LET hit == {p \in 1..Len(docs) : docs[p].id = key}
  IN  IF hit = {} THEN 0 ELSE CHOOSE p \in hit : \A m \in hit : p <= m

\* Whether the run reaches the button at position p.
Rendered(docs, p) == FirstDuplicateKey(docs) = 0 \/ p < FirstDuplicateKey(docs)

\* What the chat handler does with the value query_ai returned: the
\* exception that escapes it ("" for none), the messages it appends and the
\* notices it shows.
ChatResponse(response) ==
  IF Truthy(response)
  THEN IF response.t # "obj"
       THEN [exc |-> "AttributeError", append |-> <<>>, shown |-> <<>>]
       ELSE LET ai_response == Get(response, "response", Str(FallbackString))
                sources     == Get(response, "sources", List(<<>>))
            IN  IF ai_response.t # "str"
                THEN [exc |-> "AttributeError", append |-> <<>>, shown |-> <<>>]
                ELSE [exc |-> "",
                      append |-> <<AssistantMessage(format_response(ai_response.v),
                                                    sources.v)>>,
                      shown |-> <<>>]
  ELSE [exc |-> "", append |-> <<ErrorMessage>>, shown |-> <<Error(error_message)>>]

\* The user message is displayed but not stored.
ChatAppendUser_NotStored(msgs, prompt) == msgs

\* The chat handler up to the query: the user message goes to the log first.
ChatAppendUser(msgs, prompt) == Append(msgs, UserMessage(prompt))

\* A widget interaction: its kind, the key of the pressed button (a document
\* id) or the file concerned, and the text it carries.
NoWidget == [type |-> "none", key |-> <<>>, text |-> <<>>]
Widget(type, key, text) == [type |-> type, key |-> key, text |-> text]

NoIO == [req |-> NoRequest, reply |-> NoReply, ret |-> Null, shown |-> <<>>,
         before |-> 0, again |-> FALSE]

NoSnapshot == [messages |-> <<>>, uploaded_documents |-> <<>>]

NoneSent == [upload |-> 0, query |-> 0]

\* The backend's contract for a successful query: 200 and a text response.
IsSuccess(reply) ==
  /\ ~reply.fault
  /\ reply.status = 200
  /\ reply.body.t = "obj"
  /\ "response" \in DOMAIN reply.body.v
  /\ reply.body.v.response.t = "str"

Init ==
  /\ messages = <<>>
  /\ uploaded_documents = <<>>
  /\ uploaded_files = <<>>
  /\ pc = "idle"
  /\ idx = 1
  /\ pending = NoWidget
  /\ crashed = "no"
  /\ trigger = NoWidget
  /\ io = NoIO
  /\ atEvent = NoSnapshot
  /\ sentCount = NoneSent
  /\ completed = {}
  /\ pure = TRUE
  /\ turns = <<>>
  /\ nEvents = 0

-----------------------------------------------------------------------------
(* User actions: each starts a run of the script from its first line.      *)

StartRun(widget, action) ==
  /\ pc = "idle"
  /\ nEvents < MaxEvents
  /\ nEvents' = nEvents + 1
  /\ pc' = "upload"
  /\ idx' = 1
  /\ pending' = widget
  /\ trigger' = action
  /\ crashed' = "no"
  /\ io' = NoIO
  /\ atEvent' = [messages |-> messages, uploaded_documents |-> uploaded_documents]
  /\ sentCount' = NoneSent
  /\ UNCHANGED <<messages, uploaded_documents, pure, turns>>

SelectFile ==
  \E f \in Files :
    /\ \A i \in 1..Len(uploaded_files) : uploaded_files[i].name # f
    /\ StartRun(NoWidget, Widget("select", <<f>>, <<>>))
    /\ uploaded_files' = Append(uploaded_files, UploadedFile(f))
    /\ completed' = completed \ {f}

DeselectFile ==
  \E i \in 1..Len(uploaded_files) :
    /\ StartRun(NoWidget, Widget("deselect", <<uploaded_files[i].name>>, <<>>))
    /\ uploaded_files' = RemoveAt(uploaded_files, i)
    /\ completed' = completed \ {uploaded_files[i].name}

ClickRemove ==
  \E p \in 1..Len(uploaded_documents) :
    /\ Rendered(uploaded_documents, p)
    /\ StartRun(Widget("remove", uploaded_documents[p].id, <<>>),
                Widget("remove", uploaded_documents[p].id, <<>>))
    /\ UNCHANGED <<uploaded_files, completed>>

\* The widgets below the document list exist when the last run got there.
SidebarReached == FirstDuplicateKey(uploaded_documents) = 0

ClickSample ==
  \E question \in sample_questions :
    /\ SidebarReached
    /\ StartRun(Widget("sample", <<>>, question), Widget("sample", <<>>, question))
    /\ UNCHANGED <<uploaded_files, completed>>

ClickClear ==
  /\ SidebarReached
  /\ StartRun(Widget("clear", <<>>, <<>>), Widget("clear", <<>>, <<>>))
  /\ UNCHANGED <<uploaded_files, completed>>

SubmitPrompt ==
  \E prompt \in Prompts :
    /\ SidebarReached
    /\ StartRun(Widget("submit", <<>>, prompt), Widget("submit", <<>>, prompt))
    /\ UNCHANGED <<uploaded_files, completed>>

\* A slider of the Advanced Features section: present when the last run
\* reached the end of the script.
MoveSlider ==
  /\ SidebarReached
  /\ crashed = "no"
  /\ StartRun(NoWidget, Widget("slider", <<>>, <<>>))
  /\ UNCHANGED <<uploaded_files, completed>>

-----------------------------------------------------------------------------
(* The run of the script.                                                  *)

\* st.rerun(): the run ends and the script starts over, no widget pressed.
Rerun ==
  /\ pc' = "upload"
  /\ idx' = 1
  /\ pending' = NoWidget

\* Lines 164-176, one file of the loop.
UploadNext ==
  /\ pc = "upload"
  /\ idx <= Len(uploaded_files)
  /\ idx' = idx + 1
  /\ LET file == uploaded_files[idx] IN
       IF FileInDocuments(file, uploaded_documents)
       THEN /\ io' = NoIO
            /\ UNCHANGED <<uploaded_documents, sentCount, completed>>
       ELSE \E reply \in UploadReplies(file.name) :
              LET r == upload_document(file, reply) IN
                /\ uploaded_documents' = UploadLoopBody(uploaded_documents, file, r.ret)
                /\ io' = [req |-> UploadRequest(file.name), reply |-> reply,
                          ret |-> r.ret, shown |-> r.shown,
                          before |-> Len(uploaded_documents),
                          again |-> file.name \in completed]
                /\ sentCount' = [sentCount EXCEPT !.upload = @ + 1]
                /\ completed' = completed \cup {file.name}
  /\ UNCHANGED <<messages, uploaded_files, pc, pending, crashed, trigger,
                 atEvent, pure, turns, nEvents>>

\* The loop is over (or uploaded_files is empty).
UploadDone ==
  /\ pc = "upload"
  /\ idx > Len(uploaded_files)
  /\ pc' = "sidebar"
  /\ io' = NoIO
  /\ UNCHANGED <<messages, uploaded_documents, uploaded_files, idx, pending,
                 crashed, trigger, atEvent, sentCount, completed, pure, turns,
                 nEvents>>

\* Lines 179-188: the pressed Remove button is reached.
SidebarRemove ==
  /\ pc = "sidebar"
  /\ pending.type = "remove"
  /\ LET p == ButtonPosition(uploaded_documents, pending.key) IN
       /\ p > 0
       /\ Rendered(uploaded_documents, p)
       /\ uploaded_documents' = ListRemove(uploaded_documents, uploaded_documents[p])
  /\ Rerun
  /\ UNCHANGED <<messages, uploaded_files, crashed, trigger, io, atEvent,
                 sentCount, completed, pure, turns, nEvents>>

\* Line 186: two descriptors with one id give two buttons one key, and
\* st.button raises; the run ends there.
SidebarDuplicateKey ==
  /\ pc = "sidebar"
  /\ FirstDuplicateKey(uploaded_documents) # 0
  /\ ~(/\ pending.type = "remove"
       /\ ButtonPosition(uploaded_documents, pending.key) > 0
       /\ Rendered(uploaded_documents,
                   ButtonPosition(uploaded_documents, pending.key)))
  /\ pc' = "exception"
  /\ crashed' = "DuplicateWidgetID"
  /\ pending' = NoWidget
  /\ UNCHANGED <<messages, uploaded_documents, uploaded_files, idx, trigger,
                 io, atEvent, sentCount, completed, pure, turns, nEvents>>

\* Lines 194-201.
SidebarSample ==
  /\ pc = "sidebar"
  /\ FirstDuplicateKey(uploaded_documents) = 0
  /\ pending.type = "sample"
  /\ messages' = Append(messages, UserMessage(pending.text))
  /\ Rerun
  /\ pure' = FALSE
  /\ turns' = <<>>
  /\ UNCHANGED <<uploaded_documents, uploaded_files, crashed, trigger, io,
                 atEvent, sentCount, completed, nEvents>>

\* Lines 206-208.
SidebarClear ==
  /\ pc = "sidebar"
  /\ FirstDuplicateKey(uploaded_documents) = 0
  /\ pending.type = "clear"
  /\ messages' = <<>>
  /\ Rerun
  /\ pure' = TRUE
  /\ turns' = <<>>
  /\ UNCHANGED <<uploaded_documents, uploaded_files, crashed, trigger, io,
                 atEvent, sentCount, completed, nEvents>>

\* No button of the sidebar was pressed; lines 211-232 render the log.
SidebarNoClick ==
  /\ pc = "sidebar"
  /\ FirstDuplicateKey(uploaded_documents) = 0
  /\ pending.type \in {"none", "submit"}
  /\ pc' = "chat"
  /\ UNCHANGED <<messages, uploaded_documents, uploaded_files, idx, pending,
                 crashed, trigger, io, atEvent, sentCount, completed, pure,
                 turns, nEvents>>

\* Lines 235-284: st.chat_input returned the prompt.
ChatSubmit ==
  /\ pc = "chat"
  /\ pending.type = "submit"
  /\ \E reply \in QueryReplies :
       LET prompt       == pending.text
           document_ids == DocumentIds(uploaded_documents)
           r            == query_ai(prompt, document_ids, reply)
           h            == ChatResponse(r.ret)
       IN  /\ messages' = ChatAppendUser(messages, prompt) \o h.append
           /\ io' = [req |-> QueryData(prompt, document_ids), reply |-> reply,
                     ret |-> r.ret, shown |-> r.shown \o h.shown,
                     before |-> Len(messages), again |-> FALSE]
           /\ pc' = IF h.exc = "" THEN "footer" ELSE "exception"
           /\ crashed' = IF h.exc = "" THEN crashed ELSE h.exc
           /\ IF pure /\ IsSuccess(reply)
              THEN /\ turns' = Append(turns, [q |-> prompt,
                                              a |-> reply.body.v.response.v])
                   /\ pure' = TRUE
              ELSE /\ turns' = <<>>
                   /\ pure' = FALSE
  /\ pending' = NoWidget
  /\ sentCount' = [sentCount EXCEPT !.query = @ + 1]
  /\ UNCHANGED <<uploaded_documents, uploaded_files, idx, trigger, atEvent,
                 completed, nEvents>>

\* Line 235: st.chat_input returned None.
ChatNoPrompt ==
  /\ pc = "chat"
  /\ pending.type = "none"
  /\ pc' = "footer"
  /\ UNCHANGED <<messages, uploaded_documents, uploaded_files, idx, pending,
                 crashed, trigger, io, atEvent, sentCount, completed, pure,
                 turns, nEvents>>

\* The run is over and the view waits for the user.
BackToIdle ==
  /\ pc' = "idle"
  /\ trigger' = NoWidget
  /\ io' = NoIO
  /\ atEvent' = NoSnapshot
  /\ sentCount' = NoneSent
  /\ UNCHANGED <<messages, uploaded_documents, uploaded_files, idx, pending,
                 crashed, completed, pure, turns, nEvents>>

\* Lines 286-393: footer, settings, export, styling.
EndRun ==
  /\ pc = "footer"
  /\ BackToIdle

\* The exception left the script: Streamlit shows it and the run is over.
ShowException ==
  /\ pc = "exception"
  /\ BackToIdle

Next ==
  \/ SelectFile
  \/ DeselectFile
  \/ ClickRemove
  \/ ClickSample
  \/ ClickClear
  \/ SubmitPrompt
  \/ MoveSlider
  \/ UploadNext
  \/ UploadDone
  \/ SidebarRemove
  \/ SidebarDuplicateKey
  \/ SidebarSample
  \/ SidebarClear
  \/ SidebarNoClick
  \/ ChatSubmit
  \/ ChatNoPrompt
  \/ EndRun
  \/ ShowException

Spec == Init /\ [][Next]_vars

-----------------------------------------------------------------------------
(* Properties.                                                             *)

IsUploadStep == io.req.endpoint = "/documents/upload"
IsQueryStep  == io.req.endpoint = "/ai/query"

Shows(kind) == \E i \in 1..Len(io.shown) : io.shown[i].kind = kind

\* C1: starting from an empty log, after N chat-input submissions whose
\* queries all succeeded (and no clear-chat in between) the log has length
\* 2N and is user message i, then the assistant reply to submission i.
C1_SubmissionsAlternate ==
  pure =>
    /\ Len(messages) = 2 * Len(turns)
    /\ \A i \in 1..Len(turns) :
         /\ messages[2 * i - 1].role = "user"
         /\ messages[2 * i - 1].content = turns[i].q
         /\ messages[2 * i].role = "assistant"
         /\ messages[2 * i].content = format_response(turns[i].a)

\* Two successful submissions in a row.
C1_Witness == pure /\ Len(turns) = 2 /\ pc = "footer"

\* C2: every user turn, started from the chat input or from a sample
\* question, calls query() exactly once and leaves no user message without
\* the assistant message of its turn when the run completes.
C2_EveryTurnIsAnswered ==
  (pc = "footer" /\ trigger.type \in {"submit", "sample"}) =>
    /\ sentCount.query = 1
    /\ \A i \in 1..Len(messages) :
         messages[i].role = "user" =>
           i < Len(messages) /\ messages[i + 1].role = "assistant"

\* C3: a query that fails by a network fault or a non-200 status appends
\* the user message and exactly one assistant message, whose content is the
\* fixed connectivity-error string and which has no sources field.
C3_FailedQueryAppendsError ==
  (IsQueryStep /\ (io.reply.fault \/ io.reply.status # 200)) =>
    /\ Len(messages) = Len(atEvent.messages) + 2
    /\ SubSeq(messages, 1, Len(messages) - 2) = atEvent.messages
    /\ messages[Len(messages) - 1] = UserMessage(io.req.query)
    /\ LET m == messages[Len(messages)] IN
         /\ m.role = "assistant"
         /\ m.content = error_message
         /\ "sources" \notin DOMAIN m

\* A query fails on a log that already holds a turn.
C3_Witness ==
  /\ IsQueryStep
  /\ io.reply.status = 500
  /\ Len(atEvent.messages) = 2
  /\ messages[4].content = error_message

\* C4: every assistant message of the log has a non-empty content.
C4_AssistantContentNonEmpty ==
  \A i \in 1..Len(messages) :
    messages[i].role = "assistant" => messages[i].content # <<>>

\* C5: the document list holds at most one descriptor per backend-assigned
\* id, and a file is represented by at most one descriptor.
C5_OneDescriptorPerDocument ==
  \A i, j \in 1..Len(uploaded_documents) :
    i # j => /\ uploaded_documents[i].id # uploaded_documents[j].id
             /\ uploaded_documents[i].name # uploaded_documents[j].name

\* C6: no request is repeated without the user asking: no upload request
\* goes out for a file whose upload has already returned since the user
\* selected it, and a query request goes out only for a submitted prompt,
\* once.
C6_NoAutomaticRetry ==
  /\ ~io.again
  /\ IsQueryStep => (trigger.type = "submit" /\ sentCount.query = 1)

\* C7: when the run that handles a Remove click completes, exactly the
\* clicked descriptor is gone, the message log and the other descriptors
\* are as they were, no request was sent and no descriptor has the removed
\* id.
C7_RemoveIsLocal ==
  (pc = "footer" /\ trigger.type = "remove") =>
    /\ messages = atEvent.messages
    /\ sentCount = NoneSent
    /\ uploaded_documents =
         RemoveAt(atEvent.uploaded_documents,
                  ButtonPosition(atEvent.uploaded_documents, trigger.key))
    /\ \A i \in 1..Len(uploaded_documents) : uploaded_documents[i].id # trigger.key

\* C8: an upload answered 200 with a document id appends the descriptor and
\* shows a success notice; an upload not answered 200 shows an error notice
\* and appends nothing; a success notice is never shown for a file for
\* which no descriptor is appended.
C8_UploadOutcome ==
  IsUploadStep =>
    LET appended == Len(uploaded_documents) = io.before + 1 IN
      /\ ( /\ ~io.reply.fault
           /\ io.reply.status = 200
           /\ io.reply.body.t = "obj"
           /\ "document_id" \in DOMAIN io.reply.body.v
           /\ Truthy(io.reply.body.v.document_id) )
         => ( /\ appended
              /\ uploaded_documents[Len(uploaded_documents)].id = io.ret.v
              /\ Shows("success") )
      /\ (io.reply.fault \/ io.reply.status # 200)
         => (Shows("error") /\ ~appended)
      /\ Shows("success") => appended

\* The reply is one of the three failure kinds: a transport fault, a non-200
\* status, or a 200 whose body is malformed or lacks the expected field.
FailedReply(reply, field) ==
  \/ reply.fault
  \/ reply.status # 200
  \/ reply.body.t # "obj"
  \/ field \notin DOMAIN reply.body.v

\* C9: each of the three failure kinds of a backend call is caught, shown
\* as an error notice and turned into an empty result, and none leaves the
\* view as an unhandled exception.
C9_FailuresHandledAlike ==
  ( \/ IsUploadStep /\ FailedReply(io.reply, "document_id")
    \/ IsQueryStep /\ FailedReply(io.reply, "response") )
  => /\ Shows("error")
     /\ ~Truthy(io.ret)
     /\ crashed # "AttributeError"

====
